---------------------------- MODULE Spec2Model ----------------------------
(***************************************************************************)
(* Model of tools/grading/grade_responses.py: the grading loop of          *)
(* grade_responses, the result extraction at the end of                    *)
(* grade_with_anthropic, build_user_prompt and the loading part of main.   *)
(*                                                                         *)
(* Text is modelled as a sequence of one-character strings where the code  *)
(* inspects it (question indices, raw capability output) and as a sequence *)
(* of opaque pieces where it only concatenates it (prompts, feedback).     *)
(* Raw capability output is a sequence of JSON tokens:                     *)
(*   "{" "}" ","   the JSON punctuation                                    *)
(*   "s"           the member  "score": 1                                  *)
(*   "f"           the member  "feedback": "ok"                            *)
(*   "n"           the key     "nested":   (an object must follow)         *)
(*   "x"           any character that is no part of JSON (prose)           *)
(***************************************************************************)
EXTENDS Integers, Sequences, FiniteSets, TLC

\* ------------------------------------------------------------------ bounds
\* Total number of (student, question) entries in the responses document.
MaxPairs == 2
\* Number of students in the responses document.
MaxStudents == 2
\* Length of quiz.questions.
MaxQuestions == 1
\* Length of a raw capability output (in tokens), extraction specification.
MaxRawLen == 5

\* ------------------------------------------------------- int() and str()
DigitChars == <<"0", "1", "2", "3", "4", "5", "6", "7", "8", "9">>

IsDigit(c) == \E d \in 1..10 : DigitChars[d] = c

DigitVal(c) == (CHOOSE d \in 1..10 : DigitChars[d] = c) - 1

RECURSIVE DigitsVal(_, _)
\* The value of a run of decimal digits, most significant first.
DigitsVal(s, acc) ==
    IF s = <<>> THEN acc ELSE DigitsVal(Tail(s), acc * 10 + DigitVal(Head(s)))

\* int(q_index_str): an optional sign, then one or more decimal digits;
\* anything else raises ValueError (ok = FALSE).
IntOf(s) ==
    LET signed == s # <<>> /\ Head(s) \in {"-", "+"}
        body   == IF signed THEN Tail(s) ELSE s
        wf     == body # <<>> /\ \A i \in 1..Len(body) : IsDigit(body[i])
        mag    == IF wf THEN DigitsVal(body, 0) ELSE 0
    IN  [ok  |-> wf,
         val |-> IF signed /\ Head(s) = "-" THEN 0 - mag ELSE mag]

RECURSIVE Digits(_)
Digits(n) ==
    IF n < 10 THEN <<DigitChars[n + 1]>>
    ELSE Digits(n \div 10) \o <<DigitChars[(n % 10) + 1]>>

\* str(q_index): canonical decimal, no leading zeros, "-" for negatives.
StrOf(n) == IF n < 0 THEN <<"-">> \o Digits(0 - n) ELSE Digits(n)

\* q_index = int(q_index_str) if isinstance(q_index_str, str) else q_index_str
\* A key is [isstr, s, n]: a string key carries its characters in s, an
\* integer key its value in n.
CoerceIndex(key) ==
    IF key.isstr THEN IntOf(key.s) ELSE [ok |-> TRUE, val |-> key.n]

\* ------------------------------------------------------------- dict.get
Get(d, k, default) == IF k \in DOMAIN d THEN d[k] ELSE default

\* ------------------------------------------------------ build_user_prompt
build_user_prompt(question, answer) ==
    [q_text    |-> Get(question, "text",
                       Get(question, "question", <<"Question not found">>)),
     q_type    |-> Get(question, "type", "unknown"),
     max_score |-> Get(question, "points", Get(question, "maxScore", 1)),
     answer    |-> answer]

\* ----------------------------------------------------- question lookup
\* {"text": f"Question {q_index}", "type": "unknown", "points": 1}
Placeholder(q_index) ==
    [text |-> <<"Question ">> \o StrOf(q_index), type |-> "unknown", points |-> 1]

\* if q_index < len(questions): questions[q_index] else: placeholder.
\* questions[q_index] with a negative q_index counts from the end of the
\* list and raises IndexError below -len(questions).
ResolveQuestion(qs, q_index) ==
    IF q_index < Len(qs)
    THEN IF q_index >= 0
         THEN [ok |-> TRUE, question |-> qs[q_index + 1]]
         ELSE IF q_index >= 0 - Len(qs)
              THEN [ok |-> TRUE, question |-> qs[Len(qs) + q_index + 1]]
              ELSE [ok |-> FALSE, question |-> Placeholder(q_index)]
    ELSE [ok |-> TRUE, question |-> Placeholder(q_index)]

\* ------------------------------------------------------------ json.loads
EmptyObj == [k \in {} |-> 0]

ParseFail == [ok |-> FALSE, next |-> 0, val |-> EmptyObj]

RECURSIVE ParseObject(_, _), ParseMembers(_, _, _)
\* Recursive descent from position i, which must hold "{"; next is the
\* position after the closing "}".
ParseObject(t, i) ==
    IF i > Len(t) \/ t[i] # "{" THEN ParseFail
    ELSE IF i + 1 <= Len(t) /\ t[i + 1] = "}"
         THEN [ok |-> TRUE, next |-> i + 2, val |-> EmptyObj]
         ELSE ParseMembers(t, i + 1, EmptyObj)

\* One member at position i, then "," and more members, or "}".
\* A repeated key keeps the last value, as json.loads does.
ParseMembers(t, i, acc) ==
    IF i > Len(t) THEN ParseFail
    ELSE LET m == IF t[i] = "s"
                  THEN [ok |-> TRUE, next |-> i + 1, val |-> ("score" :> 1)]
                  ELSE IF t[i] = "f"
                  THEN [ok |-> TRUE, next |-> i + 1,
                        val |-> ("feedback" :> <<"ok">>)]
                  ELSE IF t[i] = "n"
                  THEN LET o == ParseObject(t, i + 1)
                       IN  [ok |-> o.ok, next |-> o.next,
                            val |-> ("nested" :> o.val)]
                  ELSE ParseFail
         IN  IF ~m.ok \/ m.next > Len(t) THEN ParseFail
             ELSE IF t[m.next] = ","
                  THEN ParseMembers(t, m.next + 1, m.val @@ acc)
                  ELSE IF t[m.next] = "}"
                       THEN [ok |-> TRUE, next |-> m.next + 1,
                             val |-> m.val @@ acc]
                       ELSE ParseFail

\* json.loads(text): the whole text must be one value; ok = FALSE stands
\* for JSONDecodeError.
json_loads(t) ==
    LET r == ParseObject(t, 1)
    IN  IF r.ok /\ r.next = Len(t) + 1
        THEN [ok |-> TRUE, val |-> r.val]
        ELSE [ok |-> FALSE, val |-> EmptyObj]

\* --------------------------------------------- grade_with_anthropic, tail
Has(content, c) == \E i \in 1..Len(content) : content[i] = c

\* content.index(c): position of the first c.
IndexOf(content, c) ==
    CHOOSE i \in 1..Len(content) :
        content[i] = c /\ \A j \in 1..(i - 1) : content[j] # c

\* content.rindex(c): position of the last c.
RIndexOf(content, c) ==
    CHOOSE i \in 1..Len(content) :
        content[i] = c /\ \A j \in (i + 1)..Len(content) : content[j] # c

\* {"score": 0, "feedback": content, "parse_error": True}
Fallback(content) == [score |-> 0, feedback |-> content, parse_error |-> TRUE]

\* Mutant of JsonSlice: the slice ends at the first "}" (index for rindex).
JsonSliceToFirstClose(content) ==
    SubSeq(content, IndexOf(content, "{"), IndexOf(content, "}"))

\* content[start:end] with start = index('{'), end = rindex('}') + 1;
\* empty when the last "}" comes before the first "{".
JsonSlice(content) ==
    SubSeq(content, IndexOf(content, "{"), RIndexOf(content, "}"))

\* The parsing step: the parsed object when both braces occur and the slice
\* from the first "{" to the last "}" loads; the fallback otherwise.
extract(content) ==
    IF Has(content, "{") /\ Has(content, "}")
    THEN LET r == json_loads(JsonSlice(content))
         IN  IF r.ok THEN r.val ELSE Fallback(content)
    ELSE Fallback(content)

\* ------------------------------------------------------------ the inputs
\* generate_student_id: f"s{index:03d}"
generate_student_id(index) ==
    LET d == Digits(index)
    IN  <<"s">> \o [i \in 1..(3 - Len(d)) |-> "0"] \o d

StrKey(s) == [isstr |-> TRUE, s |-> s, n |-> 0]

\* Question indices of a student's answer mapping as json.load delivers
\* them (the keys of a JSON object are strings): "0", "1", "01" (the same
\* integer as "1"), "-1" and "x" (not an integer).
KeyPool ==
    {StrKey(<<"0">>), StrKey(<<"1">>), StrKey(<<"0", "1">>),
     StrKey(<<"-", "1">>), StrKey(<<"x">>)}

AnswerPool == {"42"}

\* A student's answer mapping with at most n entries, in insertion order:
\* the keys of a mapping are pairwise distinct.
AnswerItems(n) ==
    {items \in UNION {[1..m -> [key : KeyPool, answer : AnswerPool]] : m \in 0..n} :
        \A i, j \in 1..Len(items) : i # j => items[i].key # items[j].key}

\* A student's entry: an answer mapping, or a value that is no mapping
\* (ismap = FALSE: a list, a string, a number).
StudentEntries(n) ==
    {[ismap |-> TRUE, items |-> items] : items \in AnswerItems(n)}
        \cup {[ismap |-> FALSE, items |-> <<>>]}

RECURSIVE ResponseTails(_, _, _)
\* The entries of students first..last with at most budget pairs in all.
ResponseTails(first, last, budget) ==
    IF first > last THEN {<<>>}
    ELSE UNION {{<<[id |-> generate_student_id(first), ismap |-> e.ismap,
                    items |-> e.items]>> \o rest :
                    rest \in ResponseTails(first + 1, last, budget - Len(e.items))} :
                 e \in StudentEntries(budget)}

\* The responses documents: studentId -> answers, in insertion order.
ResponseSets == UNION {ResponseTails(1, k, MaxPairs) : k \in 0..MaxStudents}

\* quiz.questions entries: one with the alternative field names, one with
\* the primary ones, one with no field at all.
QuestionAt(i) ==
    IF i % 3 = 1 THEN [question |-> <<"What is 6*7?">>, maxScore |-> 5]
    ELSE IF i % 3 = 2
         THEN [text |-> <<"Name a prime.">>, type |-> "short", points |-> 10]
         ELSE EmptyObj

QuestionLists == {[i \in 1..n |-> QuestionAt(i)] : n \in 0..MaxQuestions}

\* What one call of the grading capability does: it raises, or it returns
\* raw text: {"score": 1, "feedback": "ok"}, {} or prose.
RawPool == {<<"{", "s", ",", "f", "}">>, <<"{", "}">>, <<"x">>}

CapabilityOutcomes ==
    {[raised |-> TRUE, err |-> "timeout", content |-> <<>>]}
        \cup {[raised |-> FALSE, err |-> "", content |-> c] : c \in RawPool}

RawAlphabet == {"{", "}", ",", "s", "f", "n", "x"}

RawTexts == UNION {[1..m -> RawAlphabet] : m \in 0..MaxRawLen}

\* -------------------------------------------------------------- the state
VARIABLES
    pc,         \* "start", "grading", "done", "aborted"; "extract", "extracted"
    cause,      \* the exception that aborted the run, "" when none
    questions,  \* context.quiz.questions
    responses,  \* the responses document
    dry_run,    \* the --dry-run flag
    si,         \* position of the outer loop: index of the student
    ki,         \* position of the inner loop: index of the entry, 0 = not entered
    grades,     \* the grade map under construction
    prompted,   \* the user prompts built so far, in order
    calls,      \* the capability calls issued so far, in order
    prior,      \* the outcome of the earlier dry run on the same inputs
    content,    \* raw capability output handed to the extraction
    result      \* what the extraction returned

vars == <<pc, cause, questions, responses, dry_run, si, ki, grades, prompted,
          calls, prior, content, result>>

NoPrior == [ran |-> FALSE, pc |-> "", cause |-> "", grades |-> EmptyObj]

NoResult == [none |-> TRUE]

Init ==
    /\ pc = "start"
    /\ cause = ""
    /\ questions \in QuestionLists
    /\ responses \in ResponseSets
    /\ dry_run \in BOOLEAN
    /\ si = 0
    /\ ki = 0
    /\ grades = EmptyObj
    /\ prompted = <<>>
    /\ calls = <<>>
    /\ prior = NoPrior
    /\ content = <<>>
    /\ result = NoResult

\* ---------------------------------------------------------- the results
\* Mutant of DryRunEntry: the simulated grade without its dry_run mark.
DryRunEntryUnmarked(q_index) ==
    [key    |-> StrOf(q_index),
     result |-> [score |-> 0,
                 feedback |-> <<"[DRY RUN - no actual grading performed]">>]]

\* Mutant of DryRunEntry: the entry stored under a fixed key.
DryRunEntryOneKey(q_index) ==
    [key    |-> StrOf(0),
     result |-> [score |-> 0,
                 feedback |-> <<"[DRY RUN - no actual grading performed]">>,
                 dry_run |-> TRUE]]

\* grades[student_id][str(q_index)] = {score: 0, feedback: sentinel, dry_run: True}
DryRunEntry(q_index) ==
    [key    |-> StrOf(q_index),
     result |-> [score |-> 0,
                 feedback |-> <<"[DRY RUN - no actual grading performed]">>,
                 dry_run |-> TRUE]]

\* result = grade_with_anthropic(...); result["gradedAt"] = utcnow + "Z";
\* grades[student_id][str(q_index)] = result.  The timestamp is one opaque
\* value.
GradedEntry(q_index, raw) ==
    [key    |-> StrOf(q_index),
     result |-> ("gradedAt" :> "utcnow") @@ extract(raw)]

\* Mutant of ErrorEntry: the failure record without its error mark.
ErrorEntryUnmarked(q_index, e) ==
    [key    |-> StrOf(q_index),
     result |-> [score |-> 0, feedback |-> <<"Grading error: ", e>>]]

\* grades[student_id][str(q_index)] = {score: 0, feedback: f"Grading error: {e}", error: True}
ErrorEntry(q_index, e) ==
    [key    |-> StrOf(q_index),
     result |-> [score |-> 0, feedback |-> <<"Grading error: ", e>>,
                 error |-> TRUE]]

\* grades[student_id][key] = result: a new key is added, an old one overwritten.
Store(g, sid, entry) ==
    [g EXCEPT ![sid] = (entry.key :> entry.result) @@ @]

\* ------------------------------------------------------------ the loops
\* Mutant of ItemsOf: the entries visited last to first.
ItemsReversed(student) ==
    [i \in 1..Len(student.items) |-> student.items[Len(student.items) + 1 - i]]

\* student_answers.items(): the entries in insertion order.
ItemsOf(student) == student.items

\* Mutant of Advance: the last entry of a student is visited again.
AdvanceRepeatLast(i, k, n) == IF k < n THEN <<i, k + 1>> ELSE <<i, k>>

\* The two for loops: the next entry of this student, or the next student.
Advance(i, k, n) == IF k < n THEN <<i, k + 1>> ELSE <<i + 1, 0>>

Abort(e) ==
    /\ pc' = "aborted"
    /\ cause' = e

\* ------------------------------------------------------------ the actions
\* main: the two input files are loaded, then grade_responses is entered.
LoadFails ==
    /\ pc = "start"
    /\ Abort("load")
    /\ UNCHANGED <<questions, responses, dry_run, si, ki, grades, prompted,
                   calls, prior, content, result>>

LoadInputs ==
    /\ pc = "start"
    /\ pc' = "grading"
    /\ si' = 1
    /\ ki' = 0
    /\ grades' = EmptyObj
    /\ UNCHANGED <<cause, questions, responses, dry_run, prompted, calls,
                   prior, content, result>>

\* for student_id, student_answers in responses.items():
\*     grades[student_id] = {}; for ... in student_answers.items():
EnterStudent ==
    /\ pc = "grading"
    /\ si <= Len(responses)
    /\ ki = 0
    /\ LET student == responses[si]
       IN  /\ grades' = (student.id :> EmptyObj) @@ grades
           /\ IF ~student.ismap
              THEN /\ Abort("AttributeError")
                   /\ UNCHANGED <<si, ki>>
              ELSE /\ UNCHANGED <<pc, cause>>
                   /\ IF ItemsOf(student) = <<>>
                      THEN si' = si + 1 /\ ki' = 0
                      ELSE si' = si /\ ki' = 1
    /\ UNCHANGED <<questions, responses, dry_run, prompted, calls, prior,
                   content, result>>

\* One pass through the body of the inner loop.
GradePair ==
    /\ pc = "grading"
    /\ si <= Len(responses)
    /\ ki >= 1
    /\ LET student == responses[si]
           item    == ItemsOf(student)[ki]
           c       == CoerceIndex(item.key)
           q       == ResolveQuestion(questions, c.val)
           prompt  == build_user_prompt(q.question, item.answer)
           pos     == Advance(si, ki, Len(ItemsOf(student)))
       IN  IF ~c.ok
           THEN /\ Abort("ValueError")
                /\ UNCHANGED <<si, ki, grades, prompted, calls>>
           ELSE IF ~q.ok
           THEN /\ Abort("IndexError")
                /\ UNCHANGED <<si, ki, grades, prompted, calls>>
           ELSE /\ prompted' = Append(prompted,
                       [si |-> si, ki |-> ki, q_index |-> c.val,
                        question |-> q.question, prompt |-> prompt])
                /\ si' = pos[1]
                /\ ki' = pos[2]
                /\ UNCHANGED <<pc, cause>>
                /\ IF dry_run
                   THEN /\ grades' = Store(grades, student.id, DryRunEntry(c.val))
                        /\ UNCHANGED calls
                   ELSE \E o \in CapabilityOutcomes :
                        /\ calls' = Append(calls,
                               [si |-> si, ki |-> ki, prompt |-> prompt,
                                outcome |-> o])
                        /\ grades' = Store(grades, student.id,
                               IF o.raised THEN ErrorEntry(c.val, o.err)
                               ELSE GradedEntry(c.val, o.content))
    /\ UNCHANGED <<questions, responses, dry_run, prior, content, result>>

\* return grades
Return ==
    /\ pc = "grading"
    /\ si > Len(responses)
    /\ pc' = "done"
    /\ UNCHANGED <<cause, questions, responses, dry_run, si, ki, grades,
                   prompted, calls, prior, content, result>>

Next == LoadFails \/ LoadInputs \/ EnterStudent \/ GradePair \/ Return

Spec == Init /\ [][Next]_vars

\* ------------------------------------------- a dry run, then the real run
\* The documented usage: the same context and responses are first run with
\* --dry-run and then graded for real; the dry run's outcome is kept for
\* comparison.
Rerun ==
    /\ pc \in {"done", "aborted"}
    /\ dry_run
    /\ ~prior.ran
    /\ prior' = [ran |-> TRUE, pc |-> pc, cause |-> cause, grades |-> grades]
    /\ dry_run' = FALSE
    /\ pc' = "start"
    /\ cause' = ""
    /\ si' = 0
    /\ ki' = 0
    /\ grades' = EmptyObj
    /\ prompted' = <<>>
    /\ calls' = <<>>
    /\ UNCHANGED <<questions, responses, content, result>>

InitDry == Init /\ dry_run

NextBoth == Next \/ Rerun

SpecBoth == InitDry /\ [][NextBoth]_vars

\* ------------------------------------------------ the extraction alone
InitExtract ==
    /\ pc = "extract"
    /\ cause = ""
    /\ questions = <<>>
    /\ responses = <<>>
    /\ dry_run = FALSE
    /\ si = 0
    /\ ki = 0
    /\ grades = EmptyObj
    /\ prompted = <<>>
    /\ calls = <<>>
    /\ prior = NoPrior
    /\ content \in RawTexts
    /\ result = NoResult

\* content = response.content[0].text, then the parsing step on it.
ExtractStep ==
    /\ pc = "extract"
    /\ result' = extract(content)
    /\ pc' = "extracted"
    /\ UNCHANGED <<cause, questions, responses, dry_run, si, ki, grades,
                   prompted, calls, prior, content>>

NextExtract == ExtractStep

SpecExtract == InitExtract /\ [][NextExtract]_vars

\* ================================================================ claims
\* The integer a question entry's key stands for, and its output key.
IndexAt(i, k) == CoerceIndex(responses[i].items[k].key).val

KeyAt(i, k) == StrOf(IndexAt(i, k))

TotalPairs(n) ==
    LET RECURSIVE Sum(_)
        Sum(i) == IF i = 0 THEN 0 ELSE Sum(i - 1) + Len(responses[i].items)
    IN  Sum(n)

\* C1: a completed run returns exactly one student key per student of the
\* input and, for each student, exactly as many question keys as the
\* student has question entries.
C1_OneResultPerPair ==
    pc = "done" =>
        /\ Cardinality(DOMAIN grades) = Len(responses)
        /\ \A i \in 1..Len(responses) :
               /\ responses[i].id \in DOMAIN grades
               /\ Cardinality(DOMAIN grades[responses[i].id])
                      = Len(responses[i].items)

\* C2: in normal mode a step whose capability call raises stores
\* {score: 0, feedback: error text, error: true} under that pair's key,
\* changes no other entry of the grade map, does not abort and moves on to
\* the next pair.
C2_FailStep ==
    /\ ~dry_run
    /\ Len(calls') = Len(calls) + 1
    /\ calls'[Len(calls')].outcome.raised

C2_FailEffect ==
    LET c   == calls'[Len(calls')]
        sid == responses[c.si].id
        key == KeyAt(c.si, c.ki)
        n   == Len(responses[c.si].items)
    IN  /\ c.si = si /\ c.ki = ki
        /\ DOMAIN grades' = DOMAIN grades
        /\ DOMAIN grades'[sid] = DOMAIN grades[sid] \cup {key}
        /\ DOMAIN grades'[sid][key] = {"score", "feedback", "error"}
        /\ grades'[sid][key].score = 0
        /\ grades'[sid][key].feedback = <<"Grading error: ", c.outcome.err>>
        /\ grades'[sid][key].error = TRUE
        /\ \A s \in DOMAIN grades : \A k \in DOMAIN grades[s] :
               (s # sid \/ k # key) => grades'[s][k] = grades[s][k]
        /\ pc' = "grading"
        /\ cause' = ""
        /\ <<si', ki'>> = IF ki < n THEN <<si, ki + 1>> ELSE <<si + 1, 0>>

C2_FailureIsLocal == [][C2_FailStep => C2_FailEffect]_vars

\* C2 witness: the scenario of the spec, one student whose first call
\* succeeded and whose second call raised, the run completed.
C2_Witness ==
    /\ pc = "done"
    /\ ~dry_run
    /\ Len(calls) = 2
    /\ calls[1].si = calls[2].si
    /\ ~calls[1].outcome.raised
    /\ calls[2].outcome.raised
    /\ LET g == grades[responses[calls[1].si].id]
       IN  /\ Cardinality(DOMAIN g) = 2
           /\ "gradedAt" \in DOMAIN g[KeyAt(calls[1].si, calls[1].ki)]
           /\ "error" \in DOMAIN g[KeyAt(calls[2].si, calls[2].ki)]

\* C3: in a dry run no capability call is ever issued, every stored result
\* is the dry-run record, and on completion every pair of the input has it.
C3_DryRunRecord(r) ==
    /\ DOMAIN r = {"score", "feedback", "dry_run"}
    /\ r.score = 0
    /\ r.feedback = <<"[DRY RUN - no actual grading performed]">>
    /\ r.dry_run = TRUE

C3_DryRunNoCalls ==
    dry_run =>
        /\ calls = <<>>
        /\ \A s \in DOMAIN grades : \A k \in DOMAIN grades[s] :
               C3_DryRunRecord(grades[s][k])
        /\ pc = "done" =>
               \A i \in 1..Len(responses) : \A k \in 1..Len(responses[i].items) :
                   /\ KeyAt(i, k) \in DOMAIN grades[responses[i].id]
                   /\ C3_DryRunRecord(grades[responses[i].id][KeyAt(i, k)])

\* C3 witness: a completed dry run over two pairs.
C3_Witness ==
    /\ dry_run
    /\ pc = "done"
    /\ Len(prompted) = 2
    /\ \E s \in DOMAIN grades : \E k \in DOMAIN grades[s] :
           C3_DryRunRecord(grades[s][k])

\* C4: in normal mode the capability is called at most once for each pair
\* of the input, so a failed call is not retried.
C4_AtMostOneCallPerPair ==
    ~dry_run =>
        /\ \A a, b \in 1..Len(calls) :
               a # b => <<calls[a].si, calls[a].ki>> # <<calls[b].si, calls[b].ki>>
        /\ \A a \in 1..Len(calls) :
               /\ calls[a].si \in 1..Len(responses)
               /\ calls[a].ki \in 1..Len(responses[calls[a].si].items)
        /\ Len(calls) <= TotalPairs(Len(responses))

\* C4 witness: a completed normal run of two calls whose first call failed.
C4_Witness ==
    /\ ~dry_run
    /\ pc = "done"
    /\ Len(calls) = 2
    /\ calls[1].outcome.raised

\* C5 (as stated): pairs are processed student by student in insertion
\* order and, within a student, in ascending numeric order of the index.
C5_AscendingWithinStudent ==
    \A a \in 1..(Len(prompted) - 1) :
        \/ prompted[a].si < prompted[a + 1].si
        \/ /\ prompted[a].si = prompted[a + 1].si
           /\ prompted[a].q_index <= prompted[a + 1].q_index

\* C5 (amended): pairs are processed student by student in insertion order
\* and, within a student, in the insertion order of the student's answer
\* mapping; in normal mode the calls are issued in that same order, and a
\* completed run has processed every pair.
C5_InsertionOrder ==
    /\ \A a \in 1..Len(prompted) :
           /\ prompted[a].si \in 1..Len(responses)
           /\ prompted[a].ki \in 1..Len(responses[prompted[a].si].items)
           /\ prompted[a].q_index = IndexAt(prompted[a].si, prompted[a].ki)
           /\ a = TotalPairs(prompted[a].si - 1) + prompted[a].ki
    /\ ~dry_run =>
           /\ Len(calls) = Len(prompted)
           /\ \A a \in 1..Len(calls) :
                  calls[a].si = prompted[a].si /\ calls[a].ki = prompted[a].ki
    /\ pc = "done" => Len(prompted) = TotalPairs(Len(responses))

\* C5 witness: a completed run that processed a larger index before a
\* smaller one of the same student.
C5_Witness ==
    /\ pc = "done"
    /\ Len(prompted) = 2
    /\ prompted[1].si = prompted[2].si
    /\ prompted[1].q_index > prompted[2].q_index

\* C6: an index that is no position of quiz.questions never aborts the run
\* and is graded against the placeholder question.
C6_AbsentIndexUsesPlaceholder ==
    /\ cause # "IndexError"
    /\ \A a \in 1..Len(prompted) :
           prompted[a].q_index \notin 0..(Len(questions) - 1) =>
               /\ DOMAIN prompted[a].question = {"text", "type", "points"}
               /\ prompted[a].question.text
                      = <<"Question ">> \o StrOf(prompted[a].q_index)
               /\ prompted[a].question.type = "unknown"
               /\ prompted[a].question.points = 1

\* The JSON object grammar, stated on the text: { }, or { member , ... }
\* with members  s,  f  and  n object.
RECURSIVE IsObjectText(_), IsMembersText(_), IsMemberText(_)
IsMemberText(t) ==
    \/ Len(t) = 1 /\ t[1] \in {"s", "f"}
    \/ Len(t) >= 3 /\ t[1] = "n" /\ IsObjectText(SubSeq(t, 2, Len(t)))

IsMembersText(t) ==
    \/ IsMemberText(t)
    \/ \E k \in 2..(Len(t) - 1) :
           /\ t[k] = ","
           /\ IsMemberText(SubSeq(t, 1, k - 1))
           /\ IsMembersText(SubSeq(t, k + 1, Len(t)))

IsObjectText(t) ==
    /\ Len(t) >= 2
    /\ t[1] = "{"
    /\ t[Len(t)] = "}"
    /\ Len(t) = 2 \/ IsMembersText(SubSeq(t, 2, Len(t) - 1))

ObjectSubstrings(t) ==
    {<<i, j>> \in (1..Len(t)) \X (1..Len(t)) :
        i < j /\ IsObjectText(SubSeq(t, i, j))}

IsFallbackOf(r, t) ==
    /\ DOMAIN r = {"score", "feedback", "parse_error"}
    /\ r.score = 0
    /\ r.feedback = t
    /\ r.parse_error = TRUE

NoBracePair(t) ==
    ~\E i, j \in 1..Len(t) : i < j /\ t[i] = "{" /\ t[j] = "}"

\* C7 (as stated): a raw text containing a well-formed JSON object
\* substring yields that parsed object; a raw text with no matching brace
\* pair yields the fallback with the text verbatim as feedback.
C7_AnyObjectSubstring ==
    pc = "extracted" =>
        /\ ObjectSubstrings(content) # {} =>
               \E p \in ObjectSubstrings(content) :
                   result = json_loads(SubSeq(content, p[1], p[2])).val
        /\ NoBracePair(content) => IsFallbackOf(result, content)

\* C7 (amended): a raw text whose span from its first "{" to its last "}"
\* is a well-formed JSON object yields that parsed object; a raw text with
\* no matching brace pair yields the fallback with the text verbatim as
\* feedback.
C7_FirstToLastBrace ==
    pc = "extracted" =>
        /\ \A i, j \in 1..Len(content) :
               ( /\ content[i] = "{" /\ \A h \in 1..(i - 1) : content[h] # "{"
                 /\ content[j] = "}" /\ \A h \in (j + 1)..Len(content) : content[h] # "}"
                 /\ i < j
                 /\ IsObjectText(SubSeq(content, i, j)) )
               => /\ result = json_loads(SubSeq(content, i, j)).val
                  /\ "parse_error" \notin DOMAIN result
        /\ NoBracePair(content) => IsFallbackOf(result, content)

\* C7 witness: an object with a nested object, extracted as parsed.
C7_Witness ==
    /\ pc = "extracted"
    /\ content = <<"{", "n", "{", "}", "}">>
    /\ DOMAIN result = {"nested"}

\* C8: a run that aborts on a malformed or missing input document has
\* issued no capability call.
C8_AbortBeforeAnyCall ==
    (pc = "aborted" /\ cause \in {"load", "AttributeError", "ValueError"})
        => calls = <<>>

\* C9: when the dry run and the normal run on the same inputs both return,
\* their grade maps have the same student keys and, per student, the same
\* question keys; and the normal run aborts in the loop only if the dry run
\* did.
C9_SameShape ==
    (prior.ran /\ prior.pc = "done") =>
        /\ cause \notin {"AttributeError", "ValueError", "IndexError"}
        /\ pc = "done" =>
               /\ DOMAIN grades = DOMAIN prior.grades
               /\ \A s \in DOMAIN grades :
                      DOMAIN grades[s] = DOMAIN prior.grades[s]

\* C9 witness: both runs completed, the normal one with a failed call and
\* a call that returned unparseable text.
C9_Witness ==
    /\ prior.ran
    /\ prior.pc = "done"
    /\ pc = "done"
    /\ Len(calls) = 2
    /\ calls[1].outcome.raised
    /\ ~calls[2].outcome.raised
    /\ calls[2].outcome.content = <<"x">>

\* C10: every result in the grade map has a score and a feedback field.
C10_ScoreAndFeedback ==
    \A s \in DOMAIN grades : \A k \in DOMAIN grades[s] :
        {"score", "feedback"} \subseteq DOMAIN grades[s][k]

=============================================================================
